---- MODULE Spec2Model ----
(***************************************************************************)
(* Model of the in-process session store of vertex_search                  *)
(* (SessionManager, src/vertex_search/session.py) and of the client        *)
(* operations that read it (src/vertex_search/client.py).                  *)
(*                                                                         *)
(* Time is the wall clock in whole seconds.  Strings that the code takes   *)
(* apart (session ids) are sequences of one-character strings; opaque      *)
(* strings (user ids, query texts) are TLA+ strings.  An Optional value is *)
(* None == <<>> or Some(x) == <<x>>.                                       *)
(***************************************************************************)
EXTENDS Integers, Sequences, FiniteSets, TLC

\* ---------------------------------------------------------------- bounds
\* at most MaxCreated calls of create_session in a run
MaxCreated == 2
\* at most MaxTurns turns held by the store at a time
MaxTurns == 2

\* the id strings passed to the string functions have at most MaxIdLen characters
MaxIdLen == 4
\* the lists of results drawn from the pool hold at most MaxResults results
MaxResults == 3
\* at most MaxCalls calls of extract_sows_from_results are followed in a run
MaxCalls == 3

\* ------------------------------------------------------ program constants
\* max_age_hours * 3600
SecondsPerHour == 3600
\* result.content[:200], len(result.content) > 200
PreviewLen == 200

\* ------------------------------------------------------------ value sets
None == <<>>
Some(x) == <<x>>

\* the trailing marker of a provisional session id
Marker == "-"

\* the values successive calls of uuid.uuid4().hex return: lowercase hex digits,
\* never the marker, no value twice.  The code never looks into the digits, so
\* which values the stream holds does not matter, only that they differ.
Uuid4Stream == << <<"a", "1">>, <<"b", "2">>, <<"c", "3">>, <<"d", "4">> >>

\* user_pseudo_id arguments: None or a non-empty string
UserIds == { None, Some("u1") }

\* arguments of update_session
QueryTexts == { "q1" }
QueryIds == { "qid1" }
AnswerIds == { "answer_qid1" }

\* max_age_hours arguments of cleanup_old_sessions
MaxAges == { 0, 1 }

\* the instants datetime.now() returns, in seconds: two calls can fall on the
\* same instant, one second apart, and an hour and more apart
Instants == { 0, 1, SecondsPerHour + 1 }

\* ----------------------------------------------------------------- state
VARIABLES
    active_sessions,   \* SessionManager._active_sessions: id -> SessionInfo
    session_history,   \* SessionManager._session_history: id -> list of turns
    now,               \* the wall clock, what datetime.now() returns
    generated,         \* the number of uuid4 values drawn so far
    issued,            \* the ids create_session has returned so far
    last,              \* the last call: operation, returned value, error raised
    updater,           \* a thread inside update_session or end_session: its place and locals
    sweeper,           \* a thread inside cleanup_old_sessions: its place and locals
    read,              \* the last read-only call: function, argument, result
    results,           \* the argument of extract_sows_from_results
    analysis,          \* what extract_sows_from_results returned: None before the call
    calls,             \* the log of calls of extract_sows_from_results: input and output
    gateway,           \* the requests the last client call sent to the gateway
    outcome            \* what the last client call returned or raised

vars == << active_sessions, session_history, now, generated, issued, last,
           updater, sweeper, read, results, analysis, calls, gateway, outcome >>

\* what the client calls leave behind
client == << calls, gateway, outcome >>

\* the store and the threads
store == << active_sessions, session_history, now, generated, issued, last,
            updater, sweeper >>

\* ----------------------------------------------------------- dictionaries
Put(d, k, v) == [ x \in (DOMAIN d) \cup {k} |-> IF x = k THEN v ELSE d[x] ]
Del(d, ks) == [ x \in (DOMAIN d) \ ks |-> d[x] ]
EmptyDict == [ x \in {} |-> None ]

\* the number of turns a history dictionary holds
RECURSIVE TotalTurns(_)
TotalTurns(d) ==
    IF DOMAIN d = {} THEN 0
    ELSE LET k == CHOOSE x \in DOMAIN d : TRUE
         IN  Len(d[k]) + TotalTurns(Del(d, {k}))

\* ------------------------------------------------------- string functions
\* str.endswith('-')
EndsWithMarker(s) == Len(s) > 0 /\ s[Len(s)] = Marker

\* mutant: only one trailing marker is dropped
RStripMarker_One(s) == IF EndsWithMarker(s) THEN SubSeq(s, 1, Len(s) - 1) ELSE s

\* str.rstrip('-'): drops every trailing marker
RECURSIVE RStripMarker(_)
RStripMarker(s) ==
    IF EndsWithMarker(s) THEN RStripMarker(SubSeq(s, 1, Len(s) - 1)) ELSE s

\* datetime.isoformat(): one text per instant
isoformat(t) == ToString(t)

\* SessionManager.is_new_session
is_new_session(session_id) == EndsWithMarker(session_id)

\* SessionManager.get_clean_session_id
get_clean_session_id(session_id) == RStripMarker(session_id)

\* mutant: the id is returned without the trailing marker
NewSessionId_NoMarker(hex) == hex

\* f"{uuid.uuid4().hex}-"
NewSessionId(hex) == hex \o << Marker >>

\* the ids the callers pass: those create_session can return in a run, and one
\* it never returns
SessionIds == { NewSessionId(Uuid4Stream[i]) : i \in 1..(MaxCreated + 1) }

\* uuid.uuid4().hex: the next value of the stream
uuid4 == Uuid4Stream[generated + 1]

\* ------------------------------------------------------------ SessionInfo
InProgress == "IN_PROGRESS"
Completed == "COMPLETED"

\* models.SessionInfo(session_id=, user_pseudo_id=, start_time=, state=)
SessionInfo(session_id, user_pseudo_id, start_time, state) ==
    [ session_id     |-> session_id,
      user_pseudo_id |-> user_pseudo_id,
      start_time     |-> start_time,
      end_time       |-> None,
      state          |-> state,
      turns          |-> << >> ]

\* ------------------------------------------------------- the call record
\* op: the operation; max_age: the argument of a sweep (-1: none); ret_id: the id
\* returned (<< >>: none); ret_n: the count returned (-1: none); err: the error raised
NoCall == [ op |-> "init", max_age |-> -1, ret_id |-> << >>, ret_n |-> -1, err |-> "" ]

\* a thread outside every call
UpdaterIdle == [ pc |-> "idle", session_id |-> << >>, turn |-> << >> ]
SweeperIdle == [ pc |-> "idle", session_id |-> << >>, to_remove |-> {}, n |-> 0 ]

\* fn: the function called; session_id: its argument; ret_bool: "True" or "False"
\* ("": none); ret_id: the string returned; ret_session: Some(record) or None;
\* ret_history: the list returned; err: the error raised
NoRead ==
    [ fn |-> "", session_id |-> << >>, ret_bool |-> "", ret_id |-> << >>,
      ret_session |-> None, ret_history |-> << >>, err |-> "" ]

\* op: the client method called ("": none); err: the messages of the exception
\* raised, outermost first (<< >>: none); results: the list of results returned;
\* session_id, query_id: those of the response returned; created: the id of
\* the session the call created; total: total_documents of the analysis (-1: none)
NoOutcome ==
    [ op |-> "", err |-> << >>, results |-> << >>, session_id |-> None,
      query_id |-> None, created |-> None, total |-> -1 ]

\* VertexSearchClient.__init__: no call made yet
InitClient ==
    /\ calls = << >>
    /\ gateway = << >>
    /\ outcome = NoOutcome

\* SessionManager.__init__
InitStore ==
    /\ updater = UpdaterIdle
    /\ sweeper = SweeperIdle
    /\ active_sessions = EmptyDict
    /\ session_history = EmptyDict
    /\ now = 0
    /\ generated = 0
    /\ issued = {}
    /\ last = NoCall

Init ==
    /\ InitStore
    /\ InitClient
    /\ read = NoRead
    /\ results = << >>
    /\ analysis = None

\* the clock moves on between two calls
Tick ==
    /\ \E t \in Instants : t > now /\ now' = t
    /\ last' = [ NoCall EXCEPT !.op = "tick" ]
    /\ UNCHANGED << active_sessions, session_history, generated, issued >>

\* mutant: the new session replaces what the store held
create_session_Alone(user_pseudo_id) ==
    /\ generated < MaxCreated
    /\ LET session_id == NewSessionId(uuid4)
           session_info == SessionInfo(session_id, user_pseudo_id, Some(now), InProgress)
       IN  /\ generated' = generated + 1
           /\ active_sessions' = Put(EmptyDict, session_id, session_info)
           /\ session_history' = Put(EmptyDict, session_id, << >>)
           /\ issued' = issued \cup {session_id}
           /\ last' = [ NoCall EXCEPT !.op = "create_session", !.ret_id = session_id ]
    /\ UNCHANGED now

\* SessionManager.create_session(user_pseudo_id)
create_session(user_pseudo_id) ==
    /\ generated < MaxCreated
    /\ LET session_id == NewSessionId(uuid4)
           session_info == SessionInfo(session_id, user_pseudo_id, Some(now), InProgress)
       IN  /\ generated' = generated + 1
           /\ active_sessions' = Put(active_sessions, session_id, session_info)
           /\ session_history' = Put(session_history, session_id, << >>)
           /\ issued' = issued \cup {session_id}
           /\ last' = [ NoCall EXCEPT !.op = "create_session", !.ret_id = session_id ]
    /\ UNCHANGED now

\* mutant: the query text and the query id change places
Turn_Swapped(query, query_id, answer_id) ==
    [ query     |-> [ queryId |-> query, text |-> query_id ],
      answer    |-> answer_id,
      timestamp |-> isoformat(now) ]

\* the turn update_session builds
Turn(query, query_id, answer_id) ==
    [ query     |-> [ queryId |-> query_id, text |-> query ],
      answer    |-> answer_id,
      timestamp |-> isoformat(now) ]

\* mutant: the new element goes to the front
Append1_Front(list, x) == << x >> \o list

\* list.append
Append1(list, x) == Append(list, x)

\* mutant: a missing session gets a history of its own (dict.setdefault)
update_session_Upsert(session_id, query, query_id, answer_id) ==
    /\ TotalTurns(session_history) < MaxTurns
    /\ LET old == IF session_id \in DOMAIN session_history
                  THEN session_history[session_id] ELSE << >>
       IN  session_history' =
               Put(session_history, session_id,
                   Append(old, Turn(query, query_id, answer_id)))
    /\ last' = [ NoCall EXCEPT !.op = "update_session" ]
    /\ UNCHANGED << active_sessions, now, generated, issued >>

\* mutant: a turn is recorded for a session in progress only
update_session_InProgressOnly(session_id, query, query_id, answer_id) ==
    /\ session_id \in DOMAIN active_sessions => TotalTurns(session_history) < MaxTurns
    /\ IF /\ session_id \in DOMAIN active_sessions
          /\ active_sessions[session_id].state = InProgress
       THEN LET turns == Append1(session_history[session_id],
                                 Turn(query, query_id, answer_id))
            IN  /\ session_history' = [ session_history EXCEPT ![session_id] = turns ]
                /\ active_sessions' =
                       [ active_sessions EXCEPT ![session_id].turns = turns ]
       ELSE UNCHANGED << active_sessions, session_history >>
    /\ last' = [ NoCall EXCEPT !.op = "update_session" ]
    /\ UNCHANGED << now, generated, issued >>

\* SessionManager.update_session(session_id, query, query_id, answer_id)
update_session(session_id, query, query_id, answer_id) ==
    /\ session_id \in DOMAIN active_sessions => TotalTurns(session_history) < MaxTurns
    /\ IF session_id \in DOMAIN active_sessions
       THEN IF session_id \in DOMAIN session_history
            THEN LET turns == Append1(session_history[session_id],
                                      Turn(query, query_id, answer_id))
                 IN  /\ session_history' = [ session_history EXCEPT ![session_id] = turns ]
                     /\ active_sessions' =
                            [ active_sessions EXCEPT ![session_id].turns = turns ]
                     /\ last' = [ NoCall EXCEPT !.op = "update_session" ]
            ELSE \* self._session_history[session_id] raises
                 /\ last' = [ NoCall EXCEPT !.op = "update_session", !.err = "KeyError" ]
                 /\ UNCHANGED << active_sessions, session_history >>
       ELSE /\ last' = [ NoCall EXCEPT !.op = "update_session" ]
            /\ UNCHANGED << active_sessions, session_history >>
    /\ UNCHANGED << now, generated, issued >>

\* mutant: end_session of a missing session stores a completed record for it
end_session_Create(session_id) ==
    /\ active_sessions' =
           Put(active_sessions, session_id,
               IF session_id \in DOMAIN active_sessions
               THEN [ active_sessions[session_id] EXCEPT !.end_time = Some(now),
                                                         !.state = Completed ]
               ELSE SessionInfo(session_id, None, None, Completed))
    /\ last' = [ NoCall EXCEPT !.op = "end_session" ]
    /\ UNCHANGED << session_history, now, generated, issued >>

\* the record end_session leaves
Ended(session) == [ session EXCEPT !.end_time = Some(now), !.state = Completed ]

\* SessionManager.end_session(session_id)
end_session(session_id) ==
    /\ IF session_id \in DOMAIN active_sessions
       THEN active_sessions' =
                [ active_sessions EXCEPT ![session_id] = Ended(active_sessions[session_id]) ]
       ELSE UNCHANGED active_sessions
    /\ last' = [ NoCall EXCEPT !.op = "end_session" ]
    /\ UNCHANGED << session_history, now, generated, issued >>

\* mutant: the cutoff is the present, whatever the age asked for
CutoffTime_Now(max_age_hours) == now

\* cutoff_time = now.timestamp() - (max_age_hours * 3600)
CutoffTime(max_age_hours) == now - (max_age_hours * SecondsPerHour)

\* mutant: a session as old as the cutoff counts as old
IsOld_Inclusive(session, cutoff_time) ==
    session.start_time # None /\ session.start_time[1] <= cutoff_time

\* session.start_time and session.start_time.timestamp() < cutoff_time
IsOld(session, cutoff_time) ==
    session.start_time # None /\ session.start_time[1] < cutoff_time

\* mutant: only sessions still in progress are collected
sessions_to_remove_InProgressOnly(max_age_hours) ==
    { session_id \in DOMAIN active_sessions :
        /\ active_sessions[session_id].state = InProgress
        /\ IsOld(active_sessions[session_id], CutoffTime(max_age_hours)) }

\* the ids cleanup_old_sessions collects
sessions_to_remove(max_age_hours) ==
    { session_id \in DOMAIN active_sessions :
        IsOld(active_sessions[session_id], CutoffTime(max_age_hours)) }

\* mutant: the histories of the removed sessions stay
cleanup_old_sessions_KeepHistory(max_age_hours) ==
    LET remove == sessions_to_remove(max_age_hours)
    IN  /\ active_sessions' = Del(active_sessions, remove)
        /\ last' = [ NoCall EXCEPT !.op = "cleanup_old_sessions",
                                   !.max_age = max_age_hours,
                                   !.ret_n = Cardinality(remove) ]
        /\ UNCHANGED << session_history, now, generated, issued >>

\* SessionManager.cleanup_old_sessions(max_age_hours)
cleanup_old_sessions(max_age_hours) ==
    LET remove == sessions_to_remove(max_age_hours)
    IN  /\ active_sessions' = Del(active_sessions, remove)
        /\ session_history' = Del(session_history, remove)
        /\ last' = [ NoCall EXCEPT !.op = "cleanup_old_sessions",
                                   !.max_age = max_age_hours,
                                   !.ret_n = Cardinality(remove) ]
        /\ UNCHANGED << now, generated, issued >>

\* SessionManager.get_session(session_id): the record, or None
get_session(session_id) ==
    IF session_id \in DOMAIN active_sessions
    THEN Some(active_sessions[session_id]) ELSE None

\* SessionManager.get_session_history(session_id)
get_session_history(session_id) ==
    IF session_id \in DOMAIN session_history
    THEN session_history[session_id] ELSE << >>

\* SessionManager.list_active_sessions()
list_active_sessions ==
    { active_sessions[s] : s \in { x \in DOMAIN active_sessions :
                                     active_sessions[x].state = InProgress } }

\* SessionManager.list_sessions_for_user(user_pseudo_id)
list_sessions_for_user(user_pseudo_id) ==
    { active_sessions[s] : s \in { x \in DOMAIN active_sessions :
                                     active_sessions[x].user_pseudo_id = Some(user_pseudo_id) } }

\* Python truth of an Optional[str]
Truthy(opt) == opt # None /\ opt[1] # ""

\* one entry of the list VertexSearchClient.list_sessions returns
SessionSummary(session) ==
    [ session_id     |-> session.session_id,
      user_pseudo_id |-> session.user_pseudo_id,
      state          |-> session.state,
      start_time     |-> IF session.start_time # None
                         THEN Some(isoformat(session.start_time[1])) ELSE None,
      end_time       |-> IF session.end_time # None
                         THEN Some(isoformat(session.end_time[1])) ELSE None,
      turns          |-> Len(session.turns) ]

\* VertexSearchClient.list_sessions(user_pseudo_id)
list_sessions(user_pseudo_id) ==
    LET sessions == IF Truthy(user_pseudo_id)
                    THEN list_sessions_for_user(user_pseudo_id[1])
                    ELSE list_active_sessions
    IN  { SessionSummary(session) : session \in sessions }

\* the calls run one after the other, each from start to end
Next ==
    \/ Tick /\ UNCHANGED << updater, sweeper, read, results, analysis, client >>
    \/ \E user_pseudo_id \in UserIds :
         /\ create_session(user_pseudo_id)
         /\ UNCHANGED << updater, sweeper, read, results, analysis, client >>
    \/ \E session_id \in SessionIds, query \in QueryTexts,
          query_id \in QueryIds, answer_id \in AnswerIds :
         /\ update_session(session_id, query, query_id, answer_id)
         /\ UNCHANGED << updater, sweeper, read, results, analysis, client >>
    \/ \E session_id \in SessionIds :
         /\ end_session(session_id)
         /\ UNCHANGED << updater, sweeper, read, results, analysis, client >>
    \/ \E max_age_hours \in MaxAges :
         /\ cleanup_old_sessions(max_age_hours)
         /\ UNCHANGED << updater, sweeper, read, results, analysis, client >>

Spec == Init /\ [][Next]_vars

\* ------------------------------------------------------- threads, no lock
\* update_session, end_session and cleanup_old_sessions run by two threads.  A
\* step is one dictionary operation with the test or assignment around it; the
\* scan of cleanup_old_sessions (lines 165-167) is one step.  The dictionary's
\* iteration order is not kept: the sweep deletes the collected ids in any order.
\* The racing calls use one user id, one query text and the sweep of age 0.
RaceUser == None
RaceQuery == "q1"
RaceQueryId == "qid1"
RaceAnswerId == "answer_qid1"
RaceMaxAge == 0

Returned(op, err) == [ NoCall EXCEPT !.op = op, !.err = err ]

\* line 64: if session_id in self._active_sessions, then lines 65-72
U_check(session_id) ==
    /\ updater.pc = "idle"
    /\ TotalTurns(session_history) < MaxTurns
    /\ IF session_id \in DOMAIN active_sessions
       THEN /\ updater' = [ pc |-> "u_append", session_id |-> session_id,
                            turn |-> Some(Turn(RaceQuery, RaceQueryId, RaceAnswerId)) ]
            /\ UNCHANGED last
       ELSE /\ updater' = UpdaterIdle
            /\ last' = Returned("update_session", "")
    /\ UNCHANGED << active_sessions, session_history, now, generated, issued, sweeper >>

\* line 74: self._session_history[session_id].append(turn)
U_append ==
    /\ updater.pc = "u_append"
    /\ IF updater.session_id \in DOMAIN session_history
       THEN /\ session_history' =
                 [ session_history EXCEPT ![updater.session_id] =
                     Append1(session_history[updater.session_id], updater.turn[1]) ]
            /\ updater' = [ updater EXCEPT !.pc = "u_turns" ]
            /\ UNCHANGED last
       ELSE /\ updater' = UpdaterIdle
            /\ last' = Returned("update_session", "KeyError")
            /\ UNCHANGED session_history
    /\ UNCHANGED << active_sessions, now, generated, issued, sweeper >>

\* line 75: self._active_sessions[session_id].turns = self._session_history[session_id]
U_turns ==
    /\ updater.pc = "u_turns"
    /\ IF /\ updater.session_id \in DOMAIN session_history
          /\ updater.session_id \in DOMAIN active_sessions
       THEN /\ active_sessions' =
                 [ active_sessions EXCEPT ![updater.session_id].turns =
                     session_history[updater.session_id] ]
            /\ last' = Returned("update_session", "")
       ELSE /\ last' = Returned("update_session", "KeyError")
            /\ UNCHANGED active_sessions
    /\ updater' = UpdaterIdle
    /\ UNCHANGED << session_history, now, generated, issued, sweeper >>

\* line 84: if session_id in self._active_sessions
E_check(session_id) ==
    /\ updater.pc = "idle"
    /\ IF session_id \in DOMAIN active_sessions
       THEN /\ updater' = [ pc |-> "e_end_time", session_id |-> session_id, turn |-> << >> ]
            /\ UNCHANGED last
       ELSE /\ updater' = UpdaterIdle
            /\ last' = Returned("end_session", "")
    /\ UNCHANGED << active_sessions, session_history, now, generated, issued, sweeper >>

\* line 85: self._active_sessions[session_id].end_time = datetime.now()
E_end_time ==
    /\ updater.pc = "e_end_time"
    /\ IF updater.session_id \in DOMAIN active_sessions
       THEN /\ active_sessions' =
                 [ active_sessions EXCEPT ![updater.session_id].end_time = Some(now) ]
            /\ updater' = [ updater EXCEPT !.pc = "e_state" ]
            /\ UNCHANGED last
       ELSE /\ updater' = UpdaterIdle
            /\ last' = Returned("end_session", "KeyError")
            /\ UNCHANGED active_sessions
    /\ UNCHANGED << session_history, now, generated, issued, sweeper >>

\* line 86: self._active_sessions[session_id].state = "COMPLETED"
E_state ==
    /\ updater.pc = "e_state"
    /\ IF updater.session_id \in DOMAIN active_sessions
       THEN /\ active_sessions' =
                 [ active_sessions EXCEPT ![updater.session_id].state = Completed ]
            /\ last' = Returned("end_session", "")
       ELSE /\ last' = Returned("end_session", "KeyError")
            /\ UNCHANGED active_sessions
    /\ updater' = UpdaterIdle
    /\ UNCHANGED << session_history, now, generated, issued, sweeper >>

\* lines 161-167: the cutoff and the ids to remove
S_scan(max_age_hours) ==
    /\ sweeper.pc = "idle"
    /\ sweeper' = [ pc |-> "s_next", session_id |-> << >>,
                    to_remove |-> sessions_to_remove(max_age_hours),
                    n |-> Cardinality(sessions_to_remove(max_age_hours)) ]
    /\ UNCHANGED << active_sessions, session_history, now, generated, issued, last,
                    updater >>

\* line 169: the next id of the loop, or line 174: return len(sessions_to_remove)
S_next ==
    /\ sweeper.pc = "s_next"
    /\ IF sweeper.to_remove = {}
       THEN /\ sweeper' = SweeperIdle
            /\ last' = [ NoCall EXCEPT !.op = "cleanup_old_sessions",
                                       !.max_age = RaceMaxAge, !.ret_n = sweeper.n ]
       ELSE /\ \E session_id \in sweeper.to_remove :
                 sweeper' = [ sweeper EXCEPT !.pc = "s_del_active",
                                !.session_id = session_id,
                                !.to_remove = sweeper.to_remove \ {session_id} ]
            /\ UNCHANGED last
    /\ UNCHANGED << active_sessions, session_history, now, generated, issued, updater >>

\* line 170: del self._active_sessions[session_id]
S_del_active ==
    /\ sweeper.pc = "s_del_active"
    /\ IF sweeper.session_id \in DOMAIN active_sessions
       THEN /\ active_sessions' = Del(active_sessions, {sweeper.session_id})
            /\ sweeper' = [ sweeper EXCEPT !.pc = "s_del_history" ]
            /\ UNCHANGED last
       ELSE /\ sweeper' = SweeperIdle
            /\ last' = [ NoCall EXCEPT !.op = "cleanup_old_sessions",
                                       !.max_age = RaceMaxAge, !.err = "KeyError" ]
            /\ UNCHANGED active_sessions
    /\ UNCHANGED << session_history, now, generated, issued, updater >>

\* lines 171-172: if session_id in self._session_history: del ...
S_del_history ==
    /\ sweeper.pc = "s_del_history"
    /\ session_history' = Del(session_history, {sweeper.session_id})
    /\ sweeper' = [ sweeper EXCEPT !.pc = "s_next" ]
    /\ UNCHANGED << active_sessions, now, generated, issued, last, updater >>

NextRace ==
    \/ Tick /\ UNCHANGED << updater, sweeper, read, results, analysis, client >>
    \/ /\ create_session(RaceUser)
       /\ UNCHANGED << updater, sweeper, read, results, analysis, client >>
    \/ \E session_id \in SessionIds :
         U_check(session_id) /\ UNCHANGED << read, results, analysis, client >>
    \/ U_append /\ UNCHANGED << read, results, analysis, client >>
    \/ U_turns /\ UNCHANGED << read, results, analysis, client >>
    \/ \E session_id \in SessionIds :
         E_check(session_id) /\ UNCHANGED << read, results, analysis, client >>
    \/ E_end_time /\ UNCHANGED << read, results, analysis, client >>
    \/ E_state /\ UNCHANGED << read, results, analysis, client >>
    \/ S_scan(RaceMaxAge) /\ UNCHANGED << read, results, analysis, client >>
    \/ S_next /\ UNCHANGED << read, results, analysis, client >>
    \/ S_del_active /\ UNCHANGED << read, results, analysis, client >>
    \/ S_del_history /\ UNCHANGED << read, results, analysis, client >>

SpecRace == Init /\ [][NextRace]_vars

\* ------------------------------------------------- the string functions
\* the characters of an id string, and the id strings
IdChars == { "a", "1", Marker }
IdStrings == UNION { [ 1..n -> IdChars ] : n \in 0..MaxIdLen }

\* a call of SessionManager.is_new_session(session_id)
call_is_new_session(session_id) ==
    /\ read' = [ NoRead EXCEPT !.fn = "is_new_session",
                               !.session_id = session_id,
                               !.ret_bool = IF is_new_session(session_id)
                                            THEN "True" ELSE "False" ]
    /\ UNCHANGED store

\* mutant: the stored record moves to the clean id
call_get_clean_session_id_Rekey(session_id) ==
    LET clean == get_clean_session_id(session_id)
    IN  /\ read' = [ NoRead EXCEPT !.fn = "get_clean_session_id",
                                   !.session_id = session_id,
                                   !.ret_id = clean ]
        /\ IF session_id \in DOMAIN active_sessions
           THEN active_sessions' =
                    Put(Del(active_sessions, {session_id}), clean,
                        [ active_sessions[session_id] EXCEPT !.session_id = clean ])
           ELSE UNCHANGED active_sessions
        /\ UNCHANGED << session_history, now, generated, issued, last, updater, sweeper >>

\* a call of SessionManager.get_clean_session_id(session_id)
call_get_clean_session_id(session_id) ==
    /\ read' = [ NoRead EXCEPT !.fn = "get_clean_session_id",
                               !.session_id = session_id,
                               !.ret_id = get_clean_session_id(session_id) ]
    /\ UNCHANGED store

\* any id string is the argument
InitIds ==
    /\ InitStore
    /\ InitClient
    /\ \E session_id \in IdStrings :
         read = [ NoRead EXCEPT !.fn = "arg", !.session_id = session_id ]
    /\ results = << >>
    /\ analysis = None

\* the functions are called on the argument and on what the last call returned
NextIds ==
    \/ \E session_id \in { read.session_id, read.ret_id } :
         call_is_new_session(session_id) /\ UNCHANGED << results, analysis, client >>
    \/ \E session_id \in { read.session_id, read.ret_id } :
         call_get_clean_session_id(session_id) /\ UNCHANGED << results, analysis, client >>

SpecIds == InitIds /\ [][NextIds]_vars

\* ---------------------------------------- the read-only calls on the store
\* the ids the read-only calls are made with: a provisional id, its clean form,
\* and an id that create_session never returns
ReadIds ==
    LET p == NewSessionId(Uuid4Stream[1])
    IN  { p, get_clean_session_id(p), NewSessionId(Uuid4Stream[MaxCreated + 1]) }

\* a call of SessionManager.get_session(session_id)
call_get_session(session_id) ==
    /\ read' = [ NoRead EXCEPT !.fn = "get_session",
                               !.session_id = session_id,
                               !.ret_session = get_session(session_id) ]
    /\ UNCHANGED store

\* a call of SessionManager.get_session_history(session_id)
call_get_session_history(session_id) ==
    /\ read' = [ NoRead EXCEPT !.fn = "get_session_history",
                               !.session_id = session_id,
                               !.ret_history = get_session_history(session_id) ]
    /\ UNCHANGED store

\* the calls that change the store and the read-only calls, one after the other
NextReads ==
    \/ Tick /\ read' = NoRead /\ UNCHANGED << updater, sweeper, results, analysis, client >>
    \/ \E user_pseudo_id \in UserIds :
         /\ create_session(user_pseudo_id)
         /\ read' = NoRead
         /\ UNCHANGED << updater, sweeper, results, analysis, client >>
    \/ \E session_id \in ReadIds, query \in QueryTexts,
          query_id \in QueryIds, answer_id \in AnswerIds :
         /\ update_session(session_id, query, query_id, answer_id)
         /\ read' = NoRead
         /\ UNCHANGED << updater, sweeper, results, analysis, client >>
    \/ \E session_id \in ReadIds :
         /\ end_session(session_id)
         /\ read' = NoRead
         /\ UNCHANGED << updater, sweeper, results, analysis, client >>
    \/ \E max_age_hours \in MaxAges :
         /\ cleanup_old_sessions(max_age_hours)
         /\ read' = NoRead
         /\ UNCHANGED << updater, sweeper, results, analysis, client >>
    \/ \E session_id \in ReadIds :
         call_is_new_session(session_id) /\ UNCHANGED << results, analysis, client >>
    \/ \E session_id \in ReadIds :
         call_get_clean_session_id(session_id) /\ UNCHANGED << results, analysis, client >>
    \/ \E session_id \in ReadIds :
         call_get_session(session_id) /\ UNCHANGED << results, analysis, client >>
    \/ \E session_id \in ReadIds :
         call_get_session_history(session_id) /\ UNCHANGED << results, analysis, client >>

SpecReads == Init /\ [][NextReads]_vars

\* ------------------------------------------- characters and the pattern
\* the printable ASCII characters in code point order, without the double quote
\* (34), the backslash (92) and the grave accent (96)
AsciiFrom32 == << " ", "!" >>
AsciiFrom35 ==
    << "#", "$", "%", "&", "'", "(", ")", "*", "+", ",", "-", ".", "/", "0", "1", "2",
       "3", "4", "5", "6", "7", "8", "9", ":", ";", "<", "=", ">", "?", "@", "A", "B",
       "C", "D", "E", "F", "G", "H", "I", "J", "K", "L", "M", "N", "O", "P", "Q", "R",
       "S", "T", "U", "V", "W", "X", "Y", "Z", "[" >>
AsciiFrom93 == << "]", "^", "_" >>
AsciiFrom97 ==
    << "a", "b", "c", "d", "e", "f", "g", "h", "i", "j", "k", "l", "m", "n", "o", "p",
       "q", "r", "s", "t", "u", "v", "w", "x", "y", "z", "{", "|", "}", "~" >>

Index(seq, c) == CHOOSE i \in DOMAIN seq : seq[i] = c
Chars(seq) == { seq[i] : i \in DOMAIN seq }

\* ord(c)
ord(c) ==
    IF c \in Chars(AsciiFrom32) THEN 31 + Index(AsciiFrom32, c)
    ELSE IF c \in Chars(AsciiFrom35) THEN 34 + Index(AsciiFrom35, c)
    ELSE IF c \in Chars(AsciiFrom93) THEN 92 + Index(AsciiFrom93, c)
    ELSE 96 + Index(AsciiFrom97, c)

UpperCase == << "A", "B", "C", "D", "E", "F", "G", "H", "I", "J", "K", "L", "M", "N", "O", "P", "Q", "R", "S", "T", "U", "V", "W", "X", "Y", "Z" >>
LowerCase == << "a", "b", "c", "d", "e", "f", "g", "h", "i", "j", "k", "l", "m", "n", "o", "p", "q", "r", "s", "t", "u", "v", "w", "x", "y", "z" >>

\* str.lower() of one character
lower(c) ==
    IF \E i \in DOMAIN UpperCase : UpperCase[i] = c
    THEN LowerCase[CHOOSE i \in DOMAIN UpperCase : UpperCase[i] = c]
    ELSE c

\* the least element of a non-empty set of integers
Min(S) == CHOOSE x \in S : \A y \in S : x <= y

\* the pieces of r'(CHR_)?SOW[_\s#]*([0-9X]+)'
PrefixLiteral == << "C", "H", "R", "_" >>
LabelLiteral == << "S", "O", "W" >>
\* [_\s#]
SeparatorClass == { "_", " ", "\t", "#" }
\* mutant: letters are identifier characters too
IdentifierClass_Letters ==
    { "0", "1", "2", "3", "4", "5", "6", "7", "8", "9" } \cup { UpperCase[i] : i \in DOMAIN UpperCase }

\* [0-9X]
IdentifierClass == { "0", "1", "2", "3", "4", "5", "6", "7", "8", "9", "X" }

\* re.IGNORECASE: a character matches a literal or a class whatever its case
MatchesChar(c, literal) == lower(c) = lower(literal)
MatchesClass(c, class) == \E m \in class : MatchesChar(c, m)

\* the literal matches the title from position p on
LiteralAt(title, p, literal) ==
    /\ p >= 1
    /\ p + Len(literal) - 1 <= Len(title)
    /\ \A i \in 1..Len(literal) : MatchesChar(title[p + i - 1], literal[i])

\* the position after the longest run of characters of the class from q on
RunEnd(title, q, class) ==
    Min({ k \in q..(Len(title) + 1) :
            k = Len(title) + 1 \/ ~ MatchesClass(title[k], class) })

\* the label at p, the separators after it, the identifier after them
LabelAt(title, p) == LiteralAt(title, p, LabelLiteral)
IdentifierStart(title, p) == RunEnd(title, p + Len(LabelLiteral), SeparatorClass)
IdentifierEnd(title, p) == RunEnd(title, IdentifierStart(title, p), IdentifierClass)

\* mutant: the label alone is a match
MatchesAt_LabelOnly(title, p) == LabelAt(title, p)

\* the label matches at p, then separators, then one identifier character at least
MatchesAt(title, p) ==
    LabelAt(title, p) /\ IdentifierEnd(title, p) > IdentifierStart(title, p)

\* the match object with the label at p: group(1) is the prefix when it stands
\* right before the label, group(2) the identifier as the title spells it
MatchObject(title, p) ==
    [ group1 |-> IF LiteralAt(title, p - Len(PrefixLiteral), PrefixLiteral)
                 THEN Some(SubSeq(title, p - Len(PrefixLiteral), p - 1)) ELSE None,
      group2 |-> SubSeq(title, IdentifierStart(title, p), IdentifierEnd(title, p) - 1) ]

\* mutant: the prefix is not optional
sow_pattern_search_PrefixRequired(title) ==
    LET found == { p \in 1..Len(title) :
                     MatchesAt(title, p) /\ MatchObject(title, p).group1 # None }
    IN  IF found = {} THEN None ELSE Some(MatchObject(title, Min(found)))

\* sow_pattern.search(title): the leftmost match, or None.  The separators and
\* the identifier characters are disjoint, so the longest runs are the only
\* match with the label at p; the prefix cannot overlap an earlier label, so
\* the leftmost match is the one with the leftmost label.
sow_pattern_search(title) ==
    LET found == { p \in 1..Len(title) : MatchesAt(title, p) }
    IN  IF found = {} THEN None ELSE Some(MatchObject(title, Min(found)))

\* f"SOW#{sow_num}"
SowKey(sow_num) == << "S", "O", "W", "#" >> \o sow_num

Ellipsis == << ".", ".", "." >>

\* mutant: the preview is cut and no ellipsis is added
Preview_NoEllipsis(content) ==
    IF Len(content) > PreviewLen THEN SubSeq(content, 1, PreviewLen) ELSE content

\* result.content[:200] + '...' if len(result.content) > 200 else result.content
Preview(content) ==
    IF Len(content) > PreviewLen
    THEN SubSeq(content, 1, PreviewLen) \o Ellipsis
    ELSE content

\* the dictionary built for one result
Document(result) ==
    [ title   |-> result.title,
      link    |-> result.uri,
      content |-> Preview(result.content),
      score   |-> result.score ]

\* the keys of a dictionary kept as the sequence of its items, in insertion order
Keys(items) == { items[i].key : i \in DOMAIN items }

\* mutant: a result of a group that exists takes over its primary title
NewGroup_LastTitle(sows, sow_key, sow_num, title) ==
    IF sow_key \in Keys(sows)
    THEN [ i \in DOMAIN sows |->
             IF sows[i].key = sow_key
             THEN [ sows[i] EXCEPT !.value.primary_title = title ] ELSE sows[i] ]
    ELSE Append(sows, [ key   |-> sow_key,
                        value |-> [ sow_number    |-> sow_num,
                                    documents     |-> << >>,
                                    primary_title |-> title ] ])

\* if sow_key not in sows: sows[sow_key] = {...}
NewGroup(sows, sow_key, sow_num, title) ==
    IF sow_key \in Keys(sows)
    THEN sows
    ELSE Append(sows, [ key   |-> sow_key,
                        value |-> [ sow_number    |-> sow_num,
                                    documents     |-> << >>,
                                    primary_title |-> title ] ])

\* sows[sow_key]['documents'].append(document)
AddDocument(sows, sow_key, document) ==
    [ i \in DOMAIN sows |->
        IF sows[i].key = sow_key
        THEN [ sows[i] EXCEPT !.value.documents = Append(@, document) ]
        ELSE sows[i] ]

\* mutant: a result with a match is listed among the other documents too
LoopBody_AlsoOther(acc, result) ==
    LET match == sow_pattern_search(result.title)
    IN  IF match # None
        THEN LET sow_num == match[1].group2
                 sow_key == SowKey(sow_num)
             IN  [ sows |-> AddDocument(NewGroup(acc.sows, sow_key, sow_num, result.title),
                                        sow_key, Document(result)),
                   other_docs |-> Append(acc.other_docs, Document(result)) ]
        ELSE [ acc EXCEPT !.other_docs = Append(@, Document(result)) ]

\* the body of 'for result in results'
LoopBody(acc, result) ==
    LET match == sow_pattern_search(result.title)
    IN  IF match # None
        THEN LET sow_num == match[1].group2
                 sow_key == SowKey(sow_num)
             IN  [ acc EXCEPT !.sows =
                       AddDocument(NewGroup(@, sow_key, sow_num, result.title),
                                   sow_key, Document(result)) ]
        ELSE [ acc EXCEPT !.other_docs = Append(@, Document(result)) ]

\* the loop over the results, from the i-th on
RECURSIVE Loop(_, _, _)
Loop(rs, i, acc) ==
    IF i > Len(rs) THEN acc ELSE Loop(rs, i + 1, LoopBody(acc, rs[i]))

\* a < b for str: the first character that differs decides, else the length
StrLess(a, b) ==
    LET n == IF Len(a) < Len(b) THEN Len(a) ELSE Len(b)
        differ == { i \in 1..n : a[i] # b[i] }
    IN  IF differ = {}
        THEN Len(a) < Len(b)
        ELSE ord(a[Min(differ)]) < ord(b[Min(differ)])

\* mutant: the items stay in insertion order
sorted_Unsorted(items) == items

\* sorted(sows.items()): the keys differ, so the values are never compared and
\* an item's place is the number of smaller keys plus one
sorted(items) ==
    [ i \in 1..Len(items) |->
        CHOOSE item \in { items[j] : j \in DOMAIN items } :
            Cardinality({ j \in DOMAIN items : StrLess(items[j].key, item.key) }) = i - 1 ]

\* VertexSearchClient.extract_sows_from_results(results)
extract_sows_from_results(rs) ==
    LET done == Loop(rs, 1, [ sows |-> << >>, other_docs |-> << >> ])
    IN  [ total_sows      |-> Len(done.sows),
          sows            |-> sorted(done.sows),
          other_documents |-> done.other_docs,
          total_documents |-> Len(rs) ]

\* ------------------------------------------------- the lists of results
\* contents: empty, short, of 200 characters, and longer ones; the content of
\* dots goes on with dots where it is cut
Empty == << >>
Short == << "a", "b" >>
Full == [ i \in 1..PreviewLen |-> "b" ]
Long == [ i \in 1..(PreviewLen + 1) |-> "a" ]
Dots == [ i \in 1..(PreviewLen + Len(Ellipsis) + 1) |-> "." ]

\* the results a search returns: title, content, uri and score of a SearchResult
ResultPool == <<
    [ title |-> << "C", "H", "R", "_", "S", "O", "W", "#", "1", " ", "I", "n", "t", "r", "o" >>,
      content |-> Short, uri |-> "uri1", score |-> 3 ],
    [ title |-> << "S", "O", "W", "#", "1", " ", "A", "p", "p", "e", "n", "d", "i", "x" >>,
      content |-> Long, uri |-> "uri2", score |-> 2 ],
    [ title |-> << "R", "a", "n", "d", "o", "m", " ", "D", "o", "c" >>,
      content |-> Dots, uri |-> "uri3", score |-> 1 ],
    [ title |-> << "S", "O", "W", "#", "2" >>,
      content |-> Empty, uri |-> "uri4", score |-> 1 ],
    [ title |-> << "S", "O", "W", " ", "X" >>,
      content |-> Full, uri |-> "uri5", score |-> 2 ],
    [ title |-> << "S", "O", "W", " ", "x" >>,
      content |-> Short, uri |-> "uri6", score |-> 1 ],
    [ title |-> << "s", "o", "w", "#", "2" >>,
      content |-> Short, uri |-> "uri7", score |-> 3 ],
    [ title |-> << "S", "O", "W", "#", "A", "B" >>,
      content |-> Short, uri |-> "uri8", score |-> 1 ],
    [ title |-> << "S", "O", "W", "_", "1", "0" >>,
      content |-> Long, uri |-> "uri9", score |-> 2 ],
    [ title |-> << "S", "O", "W", " ", "S", "O", "W", "#", "3" >>,
      content |-> Short, uri |-> "uri10", score |-> 1 ],
    [ title |-> << "S", "O", "W", "#" >>,
      content |-> Short, uri |-> "uri11", score |-> 1 ],
    [ title |-> << "c", "h", "r", "_", "s", "o", "w", " ", "1" >>,
      content |-> Dots, uri |-> "uri12", score |-> 2 ],
    [ title |-> << >>,
      content |-> Empty, uri |-> "uri13", score |-> 1 ] >>

\* the titles of the worked example of the specification, in its order
ExampleResults == << ResultPool[1], ResultPool[2], ResultPool[3], ResultPool[4] >>

\* the lists of at most MaxResults results of the pool, and the example
ResultLists ==
    UNION { [ 1..n -> { ResultPool[i] : i \in DOMAIN ResultPool } ] : n \in 0..MaxResults }
        \cup { ExampleResults }

\* SessionManager.__init__ and the list of results of a search
InitClassify ==
    /\ InitStore
    /\ InitClient
    /\ read = NoRead
    /\ results \in ResultLists
    /\ analysis = None

\* a call of VertexSearchClient.extract_sows_from_results(results)
Classify ==
    /\ analysis = None
    /\ analysis' = Some(extract_sows_from_results(results))
    /\ UNCHANGED << store, read, results, client >>

NextClassify == Classify

SpecClassify == InitClassify /\ [][NextClassify]_vars

\* ------------------------------------------ the classifier, call after call
\* the lists the caller holds one after the other: two lists that share results,
\* in different orders, and a list without a group
RerunLists ==
    { << ResultPool[1], ResultPool[4], ResultPool[8] >>,
      << ResultPool[4], ResultPool[1] >>,
      << ResultPool[11] >> }

\* SessionManager.__init__, VertexSearchClient.__init__ and a first list
InitRerun ==
    /\ InitStore
    /\ InitClient
    /\ read = NoRead
    /\ results \in RerunLists
    /\ analysis = None

\* the caller gets another list of results
NewResults ==
    /\ \E rs \in RerunLists : rs # results /\ results' = rs
    /\ UNCHANGED << store, read, analysis, client >>

\* mutant: other_docs is kept from call to call
call_extract_sows_from_results_Carrying(rs) ==
    /\ Len(calls) < MaxCalls
    /\ LET before == IF analysis = None THEN << >> ELSE analysis[1].other_documents
           done == Loop(rs, 1, [ sows |-> << >>, other_docs |-> before ])
           output == [ total_sows      |-> Len(done.sows),
                       sows            |-> sorted(done.sows),
                       other_documents |-> done.other_docs,
                       total_documents |-> Len(rs) ]
       IN  /\ analysis' = Some(output)
           /\ calls' = Append(calls, [ input |-> rs, output |-> output ])
    /\ UNCHANGED << store, read, results, gateway, outcome >>

\* a call of VertexSearchClient.extract_sows_from_results(rs), written to the log
call_extract_sows_from_results(rs) ==
    /\ Len(calls) < MaxCalls
    /\ LET output == extract_sows_from_results(rs)
       IN  /\ analysis' = Some(output)
           /\ calls' = Append(calls, [ input |-> rs, output |-> output ])
    /\ UNCHANGED << store, read, results, gateway, outcome >>

\* calls of the classifier with calls of the session store in between
NextRerun ==
    \/ NewResults
    \/ call_extract_sows_from_results(results)
    \/ \E user_pseudo_id \in UserIds :
         /\ create_session(user_pseudo_id)
         /\ UNCHANGED << updater, sweeper, read, results, analysis, client >>
    \/ \E session_id \in ReadIds :
         /\ end_session(session_id)
         /\ UNCHANGED << updater, sweeper, read, results, analysis, client >>

SpecRerun == InitRerun /\ [][NextRerun]_vars

\* ------------------------------------------------- the client and the gateway
\* how the gateway answers a search: no access token, no connection, a status
\* other than 200, or 200 with a list of results
SearchReplies == { "token_error", "connection_error", "status_500", "status_200" }

\* how the gateway answers answer_query: an answer, a GoogleAPIError, another error
AnswerReplies == { "answer", "GoogleAPIError", "error" }

\* the results a search with status 200 brings
RepliedResults == << ResultPool[1], ResultPool[8] >>

\* Python truth of an Optional[str] that is kept as a sequence of characters
TruthyId(session_id) == session_id # None /\ session_id[1] # << >>

\* what a client method leaves: the requests it sent to the gateway, the messages
\* of the exception it raised (outermost first, << >>: it returned), and the
\* response it returned
Returns(requests, found, session_id, query_id) ==
    [ requests |-> requests, err |-> << >>, results |-> found,
      session_id |-> session_id, query_id |-> query_id ]
Raises(requests, err) ==
    [ requests |-> requests, err |-> err, results |-> << >>,
      session_id |-> None, query_id |-> None ]

\* the request of search: data["session"] is set for a session id that is true
SearchRequest(session_id) ==
    [ api |-> "search", session |-> IF TruthyId(session_id) THEN session_id ELSE None ]

\* mutant: a search that failed is sent once more
search_Retry(session_id, reply) ==
    LET request == SearchRequest(session_id)
    IN  CASE reply = "token_error" ->
               Raises(<< >>, << "Search failed", "Failed to get access token" >>)
          [] reply = "connection_error" ->
               Raises(<< request, request >>, << "Search failed", "ConnectionError" >>)
          [] reply = "status_500" ->
               Raises(<< request, request >>, << "Search failed", "REST API failed: 500" >>)
          [] reply = "status_200" ->
               Returns(<< request >>, RepliedResults, None, None)

\* VertexSearchClient.search(query, session_id=session_id)
search(session_id, reply) ==
    LET request == SearchRequest(session_id)
    IN  CASE reply = "token_error" ->
               Raises(<< >>, << "Search failed", "Failed to get access token" >>)
          [] reply = "connection_error" ->
               Raises(<< request >>, << "Search failed", "ConnectionError" >>)
          [] reply = "status_500" ->
               Raises(<< request >>, << "Search failed", "REST API failed: 500" >>)
          [] reply = "status_200" ->
               Returns(<< request >>, RepliedResults, None, None)

\* VertexSearchClient.get_answer(query, query_id, session_id)
get_answer(query_id, session_id, reply) ==
    LET request == [ api |-> "answer", session |-> session_id ]
    IN  CASE reply = "answer" ->
               Returns(<< request >>, << >>, session_id, query_id)
          [] reply = "GoogleAPIError" ->
               Raises(<< request >>, << "Google API error", "GoogleAPIError" >>)
          [] reply = "error" ->
               Raises(<< request >>, << "Answer generation failed", "Exception" >>)

\* mutant: the query id is taken from the search
ExtractedQueryId_FromSearch == Some("qid1")

\* query_id = None
ExtractedQueryId == None

\* VertexSearchClient.search_with_answer(query, user_pseudo_id, session_id)
search_with_answer(session_id, search_reply, answer_reply) ==
    LET searched == search(session_id, search_reply)
        answered == get_answer(ExtractedQueryId, session_id, answer_reply)
    IN  IF searched.err # << >>
        THEN Raises(searched.requests, << "Search with answer failed" >> \o searched.err)
        ELSE IF answered.err # << >>
        THEN Raises(searched.requests \o answered.requests,
                    << "Search with answer failed" >> \o answered.err)
        ELSE Returns(searched.requests \o answered.requests,
                     searched.results, answered.session_id, answered.query_id)

\* the outcome of a client call
Outcome(op, done, created, total) ==
    [ op |-> op, err |-> done.err, results |-> done.results,
      session_id |-> done.session_id, query_id |-> done.query_id,
      created |-> created, total |-> total ]

\* mutant: a session is started only when no id is passed
StartsSession_WithoutIdOnly(session_id, start_new_session) == session_id = None

\* if start_new_session or session_id is None
StartsSession(session_id, start_new_session) ==
    start_new_session \/ session_id = None

\* the session id after the session handling: the id of the new session, or the
\* id passed without its markers when it is provisional, or the id passed
SessionIdSent(session_id, creates) ==
    IF creates THEN Some(NewSessionId(uuid4))
    ELSE IF TruthyId(session_id) /\ is_new_session(session_id[1])
    THEN Some(get_clean_session_id(session_id[1]))
    ELSE session_id

\* mutant: a session created by a call that fails is taken out of the store again
conversational_search_Rollback(query, session_id, user_pseudo_id, start_new_session, search_reply, answer_reply) ==
    LET creates == StartsSession(session_id, start_new_session)
        sent == SessionIdSent(session_id, creates)
        sessions == IF creates
                    THEN Put(active_sessions, sent[1],
                             SessionInfo(sent[1], user_pseudo_id, Some(now), InProgress))
                    ELSE active_sessions
        histories == IF creates THEN Put(session_history, sent[1], << >>)
                     ELSE session_history
        done == search_with_answer(sent, search_reply, answer_reply)
        \* if session_id and answer_response.query_id
        records == done.err = << >> /\ TruthyId(sent) /\ done.query_id # None
        appends == records /\ sent[1] \in DOMAIN sessions
        turns == Append1(histories[sent[1]],
                         Turn(query, done.query_id[1], "answer_" \o done.query_id[1]))
    IN  /\ creates => generated < MaxCreated
        /\ appends => TotalTurns(session_history) < MaxTurns
        /\ generated' = IF creates THEN generated + 1 ELSE generated
        /\ issued' = IF creates THEN issued \cup { sent[1] } ELSE issued
        /\ active_sessions' = IF done.err # << >> THEN active_sessions
                              ELSE IF appends
                              THEN [ sessions EXCEPT ![sent[1]].turns = turns ]
                              ELSE sessions
        /\ session_history' = IF done.err # << >> THEN session_history
                              ELSE IF appends
                              THEN [ histories EXCEPT ![sent[1]] = turns ]
                              ELSE histories
        /\ last' = IF records THEN [ NoCall EXCEPT !.op = "update_session" ]
                   ELSE IF creates
                   THEN [ NoCall EXCEPT !.op = "create_session", !.ret_id = sent[1] ]
                   ELSE last
        /\ gateway' = done.requests
        /\ outcome' =
               IF done.err # << >>
               THEN Outcome("conversational_search",
                            Raises(done.requests,
                                   << "Conversational search failed" >> \o done.err),
                            IF creates THEN sent ELSE None, -1)
               ELSE Outcome("conversational_search",
                            Returns(done.requests, done.results, sent, done.query_id),
                            IF creates THEN sent ELSE None, -1)
        /\ UNCHANGED << now, updater, sweeper, read, results, analysis, calls >>

\* VertexSearchClient.conversational_search(query, session_id, user_pseudo_id,
\* start_new_session), with the replies of the gateway
conversational_search(query, session_id, user_pseudo_id, start_new_session, search_reply, answer_reply) ==
    LET creates == StartsSession(session_id, start_new_session)
        sent == SessionIdSent(session_id, creates)
        sessions == IF creates
                    THEN Put(active_sessions, sent[1],
                             SessionInfo(sent[1], user_pseudo_id, Some(now), InProgress))
                    ELSE active_sessions
        histories == IF creates THEN Put(session_history, sent[1], << >>)
                     ELSE session_history
        done == search_with_answer(sent, search_reply, answer_reply)
        \* if session_id and answer_response.query_id
        records == done.err = << >> /\ TruthyId(sent) /\ done.query_id # None
        appends == records /\ sent[1] \in DOMAIN sessions
        turns == Append1(histories[sent[1]],
                         Turn(query, done.query_id[1], "answer_" \o done.query_id[1]))
    IN  /\ creates => generated < MaxCreated
        /\ appends => TotalTurns(session_history) < MaxTurns
        /\ generated' = IF creates THEN generated + 1 ELSE generated
        /\ issued' = IF creates THEN issued \cup { sent[1] } ELSE issued
        /\ active_sessions' = IF appends
                              THEN [ sessions EXCEPT ![sent[1]].turns = turns ]
                              ELSE sessions
        /\ session_history' = IF appends
                              THEN [ histories EXCEPT ![sent[1]] = turns ]
                              ELSE histories
        /\ last' = IF records THEN [ NoCall EXCEPT !.op = "update_session" ]
                   ELSE IF creates
                   THEN [ NoCall EXCEPT !.op = "create_session", !.ret_id = sent[1] ]
                   ELSE last
        /\ gateway' = done.requests
        /\ outcome' =
               IF done.err # << >>
               THEN Outcome("conversational_search",
                            Raises(done.requests,
                                   << "Conversational search failed" >> \o done.err),
                            IF creates THEN sent ELSE None, -1)
               ELSE Outcome("conversational_search",
                            Returns(done.requests, done.results, sent, done.query_id),
                            IF creates THEN sent ELSE None, -1)
        /\ UNCHANGED << now, updater, sweeper, read, results, analysis, calls >>

\* a call of VertexSearchClient.search(query, session_id=session_id)
call_search(session_id, reply) ==
    LET done == search(session_id, reply)
    IN  /\ gateway' = done.requests
        /\ outcome' = Outcome("search", done, None, -1)
        /\ UNCHANGED << store, read, results, analysis, calls >>

\* a call of VertexSearchClient.search_with_answer(query, session_id=session_id)
call_search_with_answer(session_id, search_reply, answer_reply) ==
    LET done == search_with_answer(session_id, search_reply, answer_reply)
    IN  /\ gateway' = done.requests
        /\ outcome' = Outcome("search_with_answer", done, None, -1)
        /\ UNCHANGED << store, read, results, analysis, calls >>

\* VertexSearchClient.search_and_analyze_sows(query)
search_and_analyze_sows(reply) ==
    LET done == search(None, reply)
    IN  /\ gateway' = done.requests
        /\ IF done.err # << >>
           THEN /\ outcome' = Outcome("search_and_analyze_sows",
                                      Raises(done.requests,
                                             << "SOW analysis failed" >> \o done.err),
                                      None, -1)
                /\ UNCHANGED << results, analysis >>
           ELSE /\ results' = done.results
                /\ analysis' = Some(extract_sows_from_results(done.results))
                /\ outcome' = Outcome("search_and_analyze_sows", done, None,
                                      extract_sows_from_results(done.results).total_documents)
        /\ UNCHANGED << store, read, calls >>

\* the session_id arguments of the client calls: None, the empty string, the
\* first id create_session returns, and that id without its marker
SessionArgs ==
    LET p == NewSessionId(Uuid4Stream[1])
    IN  { None, Some(<< >>), Some(p), Some(get_clean_session_id(p)) }

\* the replies to the search and to the answer request of one call: the answer
\* request is sent only after a search that came back with status 200
GatewayReplies ==
    { replies \in SearchReplies \X AnswerReplies :
        replies[1] = "status_200" \/ replies[2] = "answer" }

\* the user of the conversational searches
ConversationUsers == { Some("u1") }

\* the calls of the client that reach the gateway, one after the other
NextGateway ==
    \/ \E session_id \in SessionArgs, reply \in SearchReplies :
         call_search(session_id, reply)
    \/ \E session_id \in SessionArgs, replies \in GatewayReplies :
         call_search_with_answer(session_id, replies[1], replies[2])
    \/ \E reply \in SearchReplies : search_and_analyze_sows(reply)
    \/ \E query \in QueryTexts, session_id \in SessionArgs,
          user_pseudo_id \in ConversationUsers, start_new_session \in BOOLEAN,
          replies \in GatewayReplies :
         conversational_search(query, session_id, user_pseudo_id, start_new_session,
                               replies[1], replies[2])

SpecGateway == Init /\ [][NextGateway]_vars

\* the replies of the gateway to the search and to the answer request of a
\* conversational search: the search fails, the answer fails, both succeed
ConversationReplies ==
    { << "status_500", "answer" >>, << "status_200", "error" >>, << "status_200", "answer" >> }

\* conversational searches with calls of the session store in between
NextConversation ==
    \/ Tick /\ UNCHANGED << updater, sweeper, read, results, analysis, client >>
    \/ \E session_id \in ReadIds, query \in QueryTexts,
          query_id \in QueryIds, answer_id \in AnswerIds :
         /\ update_session(session_id, query, query_id, answer_id)
         /\ UNCHANGED << updater, sweeper, read, results, analysis, client >>
    \/ \E session_id \in ReadIds :
         /\ end_session(session_id)
         /\ UNCHANGED << updater, sweeper, read, results, analysis, client >>
    \/ \E max_age_hours \in MaxAges :
         /\ cleanup_old_sessions(max_age_hours)
         /\ UNCHANGED << updater, sweeper, read, results, analysis, client >>
    \/ \E query \in QueryTexts, session_id \in SessionArgs, user_pseudo_id \in ConversationUsers,
          start_new_session \in BOOLEAN, replies \in ConversationReplies :
         conversational_search(query, session_id, user_pseudo_id, start_new_session,
                               replies[1], replies[2])

SpecConversation == Init /\ [][NextConversation]_vars

\* ------------------------------------------------------------------ claims

\* C1: every id create_session returns differs from every id an earlier
\* create_session returned, also from the ids of sessions a sweep has removed
\* since, and is_new_session is true of it
C1_CreateReturnsFreshProvisionalId ==
    [][ last'.op = "create_session" =>
          /\ last'.ret_id \notin issued
          /\ is_new_session(last'.ret_id) ]_vars

\* a create_session has returned while an id returned earlier is gone from the store
C1_Witness ==
    /\ last.op = "create_session"
    /\ last.ret_id \in DOMAIN active_sessions
    /\ \E old \in issued : old # last.ret_id /\ old \notin DOMAIN active_sessions

\* C2: end_session on a stored IN_PROGRESS session sets COMPLETED and a non-null
\* end_time, and end_session on a stored COMPLETED session leaves end_time as it was
C2_SecondEndKeepsEndTime ==
    [][ \A sid \in SessionIds :
          (end_session(sid) /\ sid \in DOMAIN active_sessions) =>
             /\ active_sessions'[sid].state = Completed
             /\ active_sessions'[sid].end_time # None
             /\ (active_sessions[sid].state = Completed =>
                    active_sessions'[sid].end_time = active_sessions[sid].end_time) ]_vars

\* C3: for every session that stays in the store, an end_time once set never
\* changes, a COMPLETED session stays COMPLETED, and a session without end_time
\* is IN_PROGRESS
C3_EndTimeSetAtMostOnce ==
    [][ \A sid \in (DOMAIN active_sessions) \cap (DOMAIN active_sessions') :
          /\ (active_sessions[sid].end_time # None =>
                 active_sessions'[sid].end_time = active_sessions[sid].end_time)
          /\ (active_sessions[sid].state = Completed =>
                 active_sessions'[sid].state = Completed)
          /\ (active_sessions'[sid].end_time = None =>
                 active_sessions'[sid].state = InProgress) ]_vars


\* C4, as stated: a sweep with max_age_hours = 0 empties the store, also of a
\* session created at the instant of the sweep, and returns 0 on an empty store
C4_SweepZeroEmptiesStore ==
    [][ cleanup_old_sessions(0) =>
          /\ active_sessions' = EmptyDict
          /\ (active_sessions = EmptyDict => last'.ret_n = 0) ]_vars

\* C4, amended: a sweep with max_age_hours = 0 removes exactly the sessions
\* whose start_time is earlier than the instant of the sweep, a session created
\* at that instant stays, and the sweep returns 0 on an empty store
C4_SweepZeroRemovesEarlierSessions ==
    [][ cleanup_old_sessions(0) =>
          /\ \A sid \in DOMAIN active_sessions :
               sid \in DOMAIN active_sessions' <=>
                  ~(active_sessions[sid].start_time[1] < now)
          /\ DOMAIN active_sessions' \subseteq DOMAIN active_sessions
          /\ (active_sessions = EmptyDict => last'.ret_n = 0) ]_vars

\* a sweep with max_age_hours = 0 has removed a session and left one created at
\* the instant of the sweep
C4_Witness ==
    /\ last.op = "cleanup_old_sessions"
    /\ last.max_age = 0
    /\ last.ret_n >= 1
    /\ \E sid \in DOMAIN active_sessions : active_sessions[sid].start_time = Some(now)

\* C5: a sweep removes every session whose start_time is older than max_age,
\* IN_PROGRESS or COMPLETED, with its history (get_session is not-found and
\* get_session_history is empty afterwards), and returns the number removed
C5_SweepRemovesOldSessions ==
    [][ \A max_age_hours \in MaxAges :
          cleanup_old_sessions(max_age_hours) =>
             /\ \A sid \in DOMAIN active_sessions :
                  active_sessions[sid].start_time[1] < now - max_age_hours * 3600 =>
                     /\ get_session(sid)' = None
                     /\ get_session_history(sid)' = << >>
                     /\ sid \notin DOMAIN session_history'
             /\ last'.ret_n =
                  Cardinality((DOMAIN active_sessions) \ (DOMAIN active_sessions')) ]_vars

\* a sweep with max_age_hours = 1 has removed a session and left a younger one
C5_Witness ==
    /\ last.op = "cleanup_old_sessions"
    /\ last.max_age = 1
    /\ last.ret_n >= 1
    /\ active_sessions # EmptyDict

\* C6: list_sessions returns exactly the IN_PROGRESS sessions, of all users when
\* no user id is given and of user u when u is given
C6_ListReturnsOnlyInProgress ==
    \A user \in UserIds : \A sid \in DOMAIN active_sessions :
        (user = None \/ active_sessions[sid].user_pseudo_id = user) =>
           ( SessionSummary(active_sessions[sid]) \in list_sessions(user)
               <=> active_sessions[sid].state = InProgress )

\* C7: update_session on a stored id makes the history one longer, the new turn
\* with the given query text, query id and answer id is last, and the earlier
\* turns are as before
C7_UpdateAppendsOneTurn ==
    [][ \A sid \in SessionIds, q \in QueryTexts, qid \in QueryIds, aid \in AnswerIds :
          (update_session(sid, q, qid, aid) /\ sid \in DOMAIN active_sessions) =>
             LET before == get_session_history(sid)
                 after == get_session_history(sid)'
             IN  /\ last'.err = ""
                 /\ Len(after) = Len(before) + 1
                 /\ after[Len(after)].query.text = q
                 /\ after[Len(after)].query.queryId = qid
                 /\ after[Len(after)].answer = aid
                 /\ SubSeq(after, 1, Len(before)) = before ]_vars

\* update_session has recorded a second turn, later than the first
C7_Witness ==
    /\ last.op = "update_session"
    /\ \E sid \in DOMAIN active_sessions :
         /\ Len(session_history[sid]) = 2
         /\ session_history[sid][1] # session_history[sid][2]
         /\ session_history[sid][2].timestamp = isoformat(now)

\* C8: update_session on an id that is not stored raises nothing and leaves
\* every session record and every history as it was
C8_UpdateOfAbsentSessionChangesNothing ==
    [][ \A sid \in SessionIds, q \in QueryTexts, qid \in QueryIds, aid \in AnswerIds :
          (update_session(sid, q, qid, aid) /\ sid \notin DOMAIN active_sessions) =>
             /\ last'.err = ""
             /\ active_sessions' = active_sessions
             /\ session_history' = session_history ]_vars

\* update_session has run on an empty store from which a sweep removed sessions
C8_Witness ==
    /\ last.op = "update_session"
    /\ active_sessions = EmptyDict
    /\ session_history = EmptyDict
    /\ issued # {}

\* C9: an update_session or end_session that runs interleaved with a sweep
\* removing its session raises nothing, and once the sweep has returned no
\* history is left for an id that is not stored
C9_RacingMutationIsNoOp ==
    [][ /\ (last'.op \in { "update_session", "end_session" } => last'.err = "")
        /\ (sweeper'.pc = "idle" =>
              DOMAIN session_history' \subseteq DOMAIN active_sessions') ]_vars

IsPrefix(a, b) == Len(a) <= Len(b) /\ SubSeq(b, 1, Len(a)) = a

\* C10: for every session that stays in the store, the history before a step is
\* a prefix of the history after it
C10_HistoryIsAppendOnly ==
    [][ \A sid \in (DOMAIN active_sessions) \cap (DOMAIN active_sessions') :
          IsPrefix(get_session_history(sid), get_session_history(sid)') ]_vars

\* a session keeps its two turns while a sweep removes another session
C10_Witness ==
    /\ last.op = "cleanup_old_sessions"
    /\ last.ret_n >= 1
    /\ \E sid \in DOMAIN active_sessions : Len(session_history[sid]) = 2

\* C11: get_clean_session_id of an id that ends with the marker returns the id
\* without its trailing markers, so that is_new_session is false of the result,
\* and get_clean_session_id of a result of get_clean_session_id returns it as it is
C11_CleanStripsMarkerAndIsIdempotent ==
    [][ \A id \in IdStrings :
          call_get_clean_session_id(id) =>
             LET r == read'.ret_id
             IN  /\ IsPrefix(r, id)
                 /\ \A i \in (Len(r) + 1)..Len(id) : id[i] = Marker
                 /\ (r = << >> \/ r[Len(r)] # Marker)
                 /\ ~ is_new_session(r)
                 /\ (is_new_session(id) => Len(r) < Len(id))
                 /\ (read.fn = "get_clean_session_id" /\ id = read.ret_id => r = id)
      ]_vars

\* get_clean_session_id has run on an id with two trailing markers
C11_Witness ==
    /\ read.fn = "get_clean_session_id"
    /\ read.session_id = << "a", "1", Marker, Marker >>
    /\ read.ret_id = << "a", "1" >>

\* C12: is_new_session and get_clean_session_id answer from the argument string
\* alone, whether or not a session is stored under it, and leave every stored
\* record and history as they were; after get_clean_session_id(p) of a stored
\* provisional id p the record is still stored under p and get_session of the
\* clean id finds nothing (the ids of the calls end with one marker at most)
C12_StringCallsLeaveStoreAlone ==
    [][ \A id \in ReadIds :
          /\ call_is_new_session(id) =>
                /\ UNCHANGED << active_sessions, session_history >>
                /\ read'.ret_bool = "True" <=> (id # << >> /\ id[Len(id)] = Marker)
          /\ call_get_clean_session_id(id) =>
                /\ UNCHANGED << active_sessions, session_history >>
                /\ read'.ret_id = IF id # << >> /\ id[Len(id)] = Marker
                                  THEN SubSeq(id, 1, Len(id) - 1) ELSE id
                /\ (id \in DOMAIN active_sessions /\ id[Len(id)] = Marker) =>
                      /\ id \in DOMAIN active_sessions'
                      /\ active_sessions'[id] = active_sessions[id]
                      /\ get_session(SubSeq(id, 1, Len(id) - 1))' = None
      ]_vars

\* get_clean_session_id has run on a stored provisional id that has a turn
C12_Witness ==
    /\ read.fn = "get_clean_session_id"
    /\ read.session_id \in DOMAIN active_sessions
    /\ read.ret_id # read.session_id
    /\ session_history[read.session_id] # << >>

\* C13: of a session id that is not in the store, get_session returns None,
\* get_session_history returns the empty list and end_session does nothing;
\* none of them raises and none of them changes the store
C13_AbsentIdIsSilent ==
    [][ \A id \in ReadIds :
          id \notin DOMAIN active_sessions =>
             /\ call_get_session(id) =>
                   /\ read'.ret_session = None
                   /\ read'.err = ""
                   /\ UNCHANGED << active_sessions, session_history >>
             /\ call_get_session_history(id) =>
                   /\ read'.ret_history = << >>
                   /\ read'.err = ""
                   /\ UNCHANGED << active_sessions, session_history >>
             /\ end_session(id) =>
                   /\ last'.err = ""
                   /\ UNCHANGED << active_sessions, session_history >>
      ]_vars

\* end_session, then get_session, have run on the id of a session that was removed
C13_Witness ==
    /\ last.op = "end_session"
    /\ read.fn = "get_session"
    /\ read.session_id \in issued
    /\ read.session_id \notin DOMAIN active_sessions
    /\ read.ret_session = None


\* ---- what the claims about extract_sows_from_results speak of
\* the documents of a group, of all groups, and of the whole output
DocumentsOf(item) == { item.value.documents[k] : k \in DOMAIN item.value.documents }
GroupedDocuments(a) == UNION { DocumentsOf(a.sows[g]) : g \in DOMAIN a.sows }
OtherDocuments(a) == { a.other_documents[k] : k \in DOMAIN a.other_documents }

\* the number of documents in the groups from the g-th on
RECURSIVE GroupedCount(_, _)
GroupedCount(a, g) ==
    IF g > Len(a.sows) THEN 0
    ELSE Len(a.sows[g].value.documents) + GroupedCount(a, g + 1)

\* how often a document with this link stands in a list
Occurrences(list, link) == Cardinality({ k \in DOMAIN list : list[k].link = link })

\* the keys of the groups that hold a document with this title
GroupKeysOf(a, title) ==
    { a.sows[g].key : g \in { h \in DOMAIN a.sows :
                                \E d \in DocumentsOf(a.sows[h]) : d.title = title } }

\* C14: every result of the input is in one group or among the other documents,
\* as often as the input holds it and never in both; the documents of the groups
\* and the other documents together are total_documents, the length of the input
C14_EveryResultInOnePlace ==
    analysis # None =>
        LET a == analysis[1]
        IN  /\ GroupedCount(a, 1) + Len(a.other_documents) = a.total_documents
            /\ a.total_documents = Len(results)
            /\ a.total_sows = Len(a.sows)
            /\ \A i \in DOMAIN results :
                 LET link == results[i].uri
                     inGroups == { g \in DOMAIN a.sows :
                                     Occurrences(a.sows[g].value.documents, link) > 0 }
                     inOther == Occurrences(a.other_documents, link)
                     inInput == Cardinality({ k \in DOMAIN results : results[k].uri = link })
                 IN  \/ /\ inOther = inInput
                        /\ inGroups = {}
                     \/ /\ inOther = 0
                        /\ \E g \in DOMAIN a.sows :
                             /\ inGroups = {g}
                             /\ Occurrences(a.sows[g].value.documents, link) = inInput

\* a list with two results of one group and one other document has been classified
C14_Witness ==
    /\ analysis # None
    /\ Len(results) = 3
    /\ Len(analysis[1].sows) = 1
    /\ Len(analysis[1].sows[1].value.documents) = 2
    /\ Len(analysis[1].other_documents) = 1

\* C15: a result whose title carries an identifier is in the group with the key
\* SOW#<identifier> and in no other, with or without the CHR_ prefix; of the
\* titles "CHR_SOW#1 Intro", "SOW#1 Appendix", "Random Doc", "SOW#2" the output
\* has the group SOW#1 with two documents, the group SOW#2 with one, the other
\* document "Random Doc", and a total of 4
C15_SameIdentifierSameGroup ==
    analysis # None =>
        LET a == analysis[1]
        IN  /\ \A i \in DOMAIN results :
                 LET match == sow_pattern_search(results[i].title)
                 IN  match # None =>
                        GroupKeysOf(a, results[i].title) =
                            { << "S", "O", "W", "#" >> \o match[1].group2 }
            /\ results = ExampleResults =>
                 /\ [ g \in DOMAIN a.sows |-> a.sows[g].key ] =
                        << << "S", "O", "W", "#", "1" >>, << "S", "O", "W", "#", "2" >> >>
                 /\ [ k \in 1..2 |-> a.sows[1].value.documents[k].title ] =
                        << ExampleResults[1].title, ExampleResults[2].title >>
                 /\ Len(a.sows[1].value.documents) = 2
                 /\ a.sows[1].value.primary_title = ExampleResults[1].title
                 /\ [ k \in DOMAIN a.sows[2].value.documents |->
                        a.sows[2].value.documents[k].title ] = << ExampleResults[4].title >>
                 /\ [ k \in DOMAIN a.other_documents |-> a.other_documents[k].title ] =
                        << ExampleResults[3].title >>
                 /\ a.total_sows = 2
                 /\ a.total_documents = 4

\* the worked example has been classified
C15_Witness ==
    /\ analysis # None
    /\ results = ExampleResults
    /\ Len(analysis[1].sows) = 2

\* C16: the primary_title of a group is the title of the first result of the
\* input that is in the group, and that result is the first of its documents
C16_PrimaryTitleIsFirst ==
    analysis # None =>
        LET a == analysis[1]
        IN  \A g \in DOMAIN a.sows :
              LET members == { i \in DOMAIN results :
                                 a.sows[g].key \in GroupKeysOf(a, results[i].title) }
              IN  /\ members # {}
                  /\ a.sows[g].value.primary_title = results[Min(members)].title
                  /\ a.sows[g].value.documents[1].title = results[Min(members)].title

\* a group of two results with different titles has been built
C16_Witness ==
    /\ analysis # None
    /\ \E g \in DOMAIN analysis[1].sows :
         LET documents == analysis[1].sows[g].value.documents
         IN  /\ Len(documents) >= 2
             /\ documents[Len(documents)].title # analysis[1].sows[g].value.primary_title


\* the title in lower case
LowerTitle(title) == [ i \in DOMAIN title |-> lower(title[i]) ]

\* C17: two results whose titles differ in letter case only, in the prefix, the
\* label or the identifier, are in groups of the same key, or both among the
\* other documents
C17_CaseOnlyDifferenceSameGroup ==
    analysis # None =>
        \A i, j \in DOMAIN results :
            LowerTitle(results[i].title) = LowerTitle(results[j].title) =>
                GroupKeysOf(analysis[1], results[i].title) =
                    GroupKeysOf(analysis[1], results[j].title)

\* the characters of an identifier: the digits and the placeholder in either case
Digits == { "0", "1", "2", "3", "4", "5", "6", "7", "8", "9" }
Letters == { UpperCase[i] : i \in DOMAIN UpperCase } \cup { LowerCase[i] : i \in DOMAIN LowerCase }
DigitOrPlaceholder == Digits \cup { "X", "x" }

\* somewhere in the title stands the label, in any case, then separators (if
\* any), then a character of the set
LabelThenOneOf(title, chars) ==
    \E p \in 1..Len(title), q \in 1..Len(title) :
        /\ q >= p + 3
        /\ << lower(title[p]), lower(title[p + 1]), lower(title[p + 2]) >> = << "s", "o", "w" >>
        /\ \A k \in (p + 3)..(q - 1) : title[k] \in { "_", " ", "\t", "#" }
        /\ title[q] \in chars

DocumentsFor(a, i) ==
    { d \in GroupedDocuments(a) \cup OtherDocuments(a) : d.link = results[i].uri }

\* C19 as stated: the preview of a content of more than 200 characters has 203
\* characters at most and is a prefix of the content
C19_PreviewIsPrefix ==
    analysis # None =>
        \A i \in DOMAIN results :
            Len(results[i].content) > 200 =>
                \A d \in DocumentsFor(analysis[1], i) :
                    /\ Len(d.content) <= 203
                    /\ IsPrefix(d.content, results[i].content)

\* C19, amended: the preview of a content of more than 200 characters has 203
\* characters: the first 200 of the content, then three dots; a content of 200
\* characters or fewer is its own preview
C19_PreviewIsPrefixThenDots ==
    analysis # None =>
        \A i \in DOMAIN results :
            /\ DocumentsFor(analysis[1], i) # {}
            /\ \A d \in DocumentsFor(analysis[1], i) :
                 IF Len(results[i].content) > 200
                 THEN /\ Len(d.content) = 203
                      /\ SubSeq(d.content, 1, 200) = SubSeq(results[i].content, 1, 200)
                      /\ SubSeq(d.content, 201, 203) = << ".", ".", "." >>
                 ELSE d.content = results[i].content

\* results with contents of 200 and of 201 characters have been classified, the
\* longer one in a group
C19_Witness ==
    /\ analysis # None
    /\ \E i, j \in DOMAIN results :
         /\ Len(results[i].content) = 201
         /\ Len(results[j].content) = 200
         /\ \E d \in GroupedDocuments(analysis[1]) :
              d.link = results[i].uri /\ Len(d.content) = 203

\* C20: the groups of the output stand in ascending order of their keys,
\* whatever the order in which the input brought them up
C20_GroupsInKeyOrder ==
    analysis # None =>
        \A g, h \in DOMAIN analysis[1].sows :
            g < h => StrLess(analysis[1].sows[g].key, analysis[1].sows[h].key)

\* the first result of the input is in the last group of the output
C20_Witness ==
    /\ analysis # None
    /\ Len(analysis[1].sows) >= 2
    /\ analysis[1].sows[Len(analysis[1].sows)].value.primary_title = results[1].title


\* C27: when the calls run one after the other, the session map and the history
\* map have the same keys in every state
C27_SessionsAndHistoriesSameKeys ==
    DOMAIN active_sessions = DOMAIN session_history

\* a sweep has removed one session and left another, which has a turn
C27_Witness ==
    /\ last.op = "cleanup_old_sessions"
    /\ last.ret_n = 1
    /\ \E sid \in DOMAIN active_sessions : session_history[sid] # << >>

\* C28: cleanup_old_sessions(max_age) keeps every session that did not start
\* before the cutoff, with its user id, state, start_time, end_time and turns,
\* and keeps its history
C28_SweepKeepsYoungSessions ==
    [][ \A max_age \in MaxAges :
          cleanup_old_sessions(max_age) =>
             \A sid \in DOMAIN active_sessions :
                active_sessions[sid].start_time[1] >= now - max_age * 3600 =>
                   /\ sid \in DOMAIN active_sessions'
                   /\ active_sessions'[sid] = active_sessions[sid]
                   /\ sid \in DOMAIN session_history'
                   /\ session_history'[sid] = session_history[sid] ]_vars

\* a sweep of one hour has removed a session and kept a completed one with a turn
C28_Witness ==
    /\ last.op = "cleanup_old_sessions"
    /\ last.max_age = 1
    /\ last.ret_n = 1
    /\ \E sid \in DOMAIN active_sessions :
         /\ active_sessions[sid].state = Completed
         /\ active_sessions[sid].start_time[1] < now
         /\ session_history[sid] # << >>

\* C29: update_session on a stored session that is COMPLETED appends the turn to
\* its history and to its record, and leaves its state and its end_time alone
C29_CompletedSessionStillRecordsTurns ==
    [][ \A sid \in SessionIds, q \in QueryTexts, qid \in QueryIds, aid \in AnswerIds :
          ( /\ update_session(sid, q, qid, aid)
            /\ sid \in DOMAIN active_sessions
            /\ active_sessions[sid].state = Completed ) =>
             /\ Len(session_history'[sid]) = Len(session_history[sid]) + 1
             /\ session_history'[sid][Len(session_history'[sid])].query.text = q
             /\ session_history'[sid][Len(session_history'[sid])].answer = aid
             /\ active_sessions'[sid].turns = session_history'[sid]
             /\ active_sessions'[sid].state = Completed
             /\ active_sessions'[sid].end_time = active_sessions[sid].end_time ]_vars

\* a turn has been recorded later than the end of its session
C29_Witness ==
    /\ last.op = "update_session"
    /\ \E sid \in DOMAIN active_sessions :
         /\ active_sessions[sid].state = Completed
         /\ active_sessions[sid].end_time # None
         /\ session_history[sid] # << >>
         /\ active_sessions[sid].end_time[1] < now
         /\ session_history[sid][Len(session_history[sid])].timestamp = isoformat(now)

\* C30: create_session raises nothing and adds one record, IN_PROGRESS, of the
\* given user, started now, not ended, without turns, with an empty history; the
\* sessions and histories stored before stay as they were
C30_CreateAddsOneSessionOnly ==
    [][ \A u \in UserIds :
          create_session(u) =>
             LET sid == last'.ret_id
             IN  /\ last'.err = ""
                 /\ sid \notin DOMAIN active_sessions
                 /\ DOMAIN active_sessions' = DOMAIN active_sessions \cup {sid}
                 /\ DOMAIN session_history' = DOMAIN session_history \cup {sid}
                 /\ active_sessions'[sid] =
                        [ session_id |-> sid, user_pseudo_id |-> u,
                          start_time |-> << now >>, end_time |-> << >>,
                          state |-> "IN_PROGRESS", turns |-> << >> ]
                 /\ session_history'[sid] = << >>
                 /\ \A old \in DOMAIN active_sessions :
                        /\ active_sessions'[old] = active_sessions[old]
                        /\ session_history'[old] = session_history[old] ]_vars

\* a second session has been created next to a completed one that has a turn
C30_Witness ==
    /\ last.op = "create_session"
    /\ \E old \in DOMAIN active_sessions :
         /\ old # last.ret_id
         /\ active_sessions[old].state = Completed
         /\ session_history[old] # << >>


\* the titles of the other documents, in their order
OtherTitles(a) == [ k \in DOMAIN a.other_documents |-> a.other_documents[k].title ]

\* C21: whatever the titles are, the call returns an analysis in which a result
\* whose title is empty or has no label followed by an identifier is one of the
\* other documents and in no group, and the other documents are these results only
C21_NoIdentifierMeansOther ==
    analysis # None =>
        LET a == analysis[1]
            unclassified == { i \in DOMAIN results :
                                \/ results[i].title = << >>
                                \/ ~ LabelThenOneOf(results[i].title, DigitOrPlaceholder) }
        IN  /\ \A i \in unclassified :
                 /\ \E k \in DOMAIN a.other_documents :
                        /\ a.other_documents[k].title = results[i].title
                        /\ a.other_documents[k].link = results[i].uri
                 /\ GroupKeysOf(a, results[i].title) = {}
            /\ Len(a.other_documents) = Cardinality(unclassified)

\* results with an empty title and with a label without identifier have been
\* classified next to one with an identifier
C21_Witness ==
    /\ analysis # None
    /\ analysis[1].total_sows = 1
    /\ \E k \in DOMAIN OtherTitles(analysis[1]) : OtherTitles(analysis[1])[k] = << >>
    /\ \E k \in DOMAIN OtherTitles(analysis[1]) :
           OtherTitles(analysis[1])[k] = << "S", "O", "W", "#" >>


RequestsTo(requests, api) == { k \in DOMAIN requests : requests[k].api = api }

\* the call sent one search at most and one answer request at most
NoSecondRequest(requests) ==
    /\ Cardinality(RequestsTo(requests, "search")) <= 1
    /\ Cardinality(RequestsTo(requests, "answer")) <= 1

\* the exception raised ends with the messages of the failure below it
CarriesFailure(err, reply) ==
    /\ Len(err) >= 2
    /\ err[Len(err)] =
          CASE reply = "token_error" -> "Failed to get access token"
            [] reply = "connection_error" -> "ConnectionError"
            [] reply = "status_500" -> "REST API failed: 500"
            [] reply = "GoogleAPIError" -> "GoogleAPIError"
            [] reply = "error" -> "Exception"

\* C23: a call of search sends one request at most, and a token failure, a
\* connection failure or a status other than 200 ends it with an exception that
\* carries the failure, not with a list; search_with_answer,
\* search_and_analyze_sows and conversational_search raise when the search or
\* the answer fails, send nothing more after the failure, and no answer request
\* after a search that failed
C23_FailureRaisesWithoutRetry ==
    [][ /\ \A sid \in SessionArgs, sr \in SearchReplies :
             call_search(sid, sr) =>
                /\ Len(gateway') <= 1
                /\ IF sr = "status_200"
                   THEN outcome'.err = << >>
                   ELSE /\ CarriesFailure(outcome'.err, sr)
                        /\ outcome'.results = << >>
        /\ \A sid \in SessionArgs, << sr, ar >> \in GatewayReplies :
             call_search_with_answer(sid, sr, ar) =>
                /\ NoSecondRequest(gateway')
                /\ sr # "status_200" =>
                      /\ CarriesFailure(outcome'.err, sr)
                      /\ RequestsTo(gateway', "answer") = {}
                /\ (sr = "status_200" /\ ar # "answer") =>
                      CarriesFailure(outcome'.err, ar)
                /\ (sr = "status_200" /\ ar = "answer") => outcome'.err = << >>
        /\ \A sr \in SearchReplies :
             search_and_analyze_sows(sr) =>
                /\ Len(gateway') <= 1
                /\ IF sr = "status_200"
                   THEN outcome'.err = << >>
                   ELSE CarriesFailure(outcome'.err, sr) /\ analysis' = analysis
        /\ \A q \in QueryTexts, sid \in SessionArgs, u \in ConversationUsers,
              new \in BOOLEAN, << sr, ar >> \in GatewayReplies :
             conversational_search(q, sid, u, new, sr, ar) =>
                /\ NoSecondRequest(gateway')
                /\ sr # "status_200" =>
                      /\ CarriesFailure(outcome'.err, sr)
                      /\ RequestsTo(gateway', "answer") = {}
                      /\ outcome'.session_id = None
                /\ (sr = "status_200" /\ ar # "answer") =>
                      /\ CarriesFailure(outcome'.err, ar)
                      /\ outcome'.session_id = None
                /\ (sr = "status_200" /\ ar = "answer") => outcome'.err = << >>
      ]_vars

\* search_with_answer has raised after one request that came back with status 500
C23_Witness ==
    /\ outcome.op = "search_with_answer"
    /\ Len(gateway) = 1
    /\ gateway[1].api = "search"
    /\ outcome.err = << "Search with answer failed", "Search failed", "REST API failed: 500" >>


\* the sessions a step has added to the store
CreatedByStep == DOMAIN active_sessions' \ DOMAIN active_sessions

\* C24: conversational_search adds a session to the store when start_new_session
\* is true or session_id is None, also when the id passed is the id of a stored
\* session, and in no other case; the session added is IN_PROGRESS under a
\* provisional id, and a call that succeeds returns that id
C24_NewSessionExactlyWhenAsked ==
    [][ \A q \in QueryTexts, sid \in SessionArgs, u \in ConversationUsers, new \in BOOLEAN,
           r \in ConversationReplies :
          conversational_search(q, sid, u, new, r[1], r[2]) =>
             IF new \/ sid = None
             THEN \E p \in CreatedByStep :
                    /\ CreatedByStep = {p}
                    /\ is_new_session(p)
                    /\ active_sessions'[p].state = "IN_PROGRESS"
                    /\ active_sessions'[p].session_id = p
                    /\ outcome'.err = << >> => outcome'.session_id = << p >>
             ELSE /\ CreatedByStep = {}
                  /\ DOMAIN session_history' = DOMAIN session_history
                  /\ generated' = generated ]_vars

\* a conversational search has returned the id of a session it added next to
\* the session stored before, and sent the search and the answer request with it
C24_Witness ==
    /\ outcome.op = "conversational_search"
    /\ outcome.err = << >>
    /\ outcome.session_id # None
    /\ outcome.session_id = outcome.created
    /\ outcome.session_id[1] \in DOMAIN active_sessions
    /\ active_sessions[outcome.session_id[1]].state = "IN_PROGRESS"
    /\ Cardinality(DOMAIN active_sessions) = 2
    /\ Len(gateway) = 2
    /\ gateway[1].session = outcome.session_id

\* the id a caller passes back: the provisional id of a stored session
PassesBackStored(sid, new) ==
    /\ ~new
    /\ sid # None
    /\ sid[1] \in DOMAIN active_sessions
    /\ is_new_session(sid[1])

\* C25: a conversational search changes no history: the histories stored stay as
\* they were and the history of a session it adds is empty, the response has no
\* query id; when the provisional id of a stored session is passed, the requests
\* and the response have that id without its marker, which is no key of the
\* sessions or of the histories
C25_ConversationRecordsNoTurn ==
    [][ \A q \in QueryTexts, sid \in SessionArgs, u \in ConversationUsers, new \in BOOLEAN,
           r \in ConversationReplies :
          conversational_search(q, sid, u, new, r[1], r[2]) =>
             /\ \A old \in DOMAIN session_history :
                    /\ old \in DOMAIN session_history'
                    /\ session_history'[old] = session_history[old]
                    /\ active_sessions'[old].turns = active_sessions[old].turns
             /\ \A p \in DOMAIN session_history' \ DOMAIN session_history :
                    session_history'[p] = << >>
             /\ outcome'.query_id = None
             /\ PassesBackStored(sid, new) =>
                    LET stripped == SubSeq(sid[1], 1, Len(sid[1]) - 1)
                    IN  /\ \A k \in DOMAIN gateway' : gateway'[k].session = << stripped >>
                        /\ outcome'.err = << >> => outcome'.session_id = << stripped >>
                        /\ stripped \notin DOMAIN active_sessions'
                        /\ stripped \notin DOMAIN session_history' ]_vars

\* a conversational search has returned the stripped id of a stored session that
\* has a turn in its history, and the history has that one turn still
C25_Witness ==
    /\ outcome.op = "conversational_search"
    /\ outcome.err = << >>
    /\ outcome.created = None
    /\ outcome.session_id # None
    /\ outcome.session_id[1] \notin DOMAIN active_sessions
    /\ \E p \in DOMAIN session_history :
         /\ p = outcome.session_id[1] \o << Marker >>
         /\ Len(session_history[p]) = 1
    /\ Len(gateway) = 2
    /\ gateway[2].session = outcome.session_id


\* the session the last conversational search added before it raised, while it
\* is in the store
LeftBehind ==
    IF outcome.op = "conversational_search" /\ outcome.err # << >> /\ outcome.created # None
    THEN { outcome.created[1] } \cap DOMAIN active_sessions
    ELSE {}

\* a conversational search that adds a session and whose search or answer fails
\* raises, returns no id, and leaves the session stored, IN_PROGRESS, without turns
FailedCallKeepsItsSession ==
    \A q \in QueryTexts, sid \in SessionArgs, u \in ConversationUsers, new \in BOOLEAN,
       r \in ConversationReplies :
      ( /\ conversational_search(q, sid, u, new, r[1], r[2])
        /\ new \/ sid = None
        /\ r # << "status_200", "answer" >> ) =>
         /\ Len(outcome'.err) >= 2
         /\ outcome'.err[1] = "Conversational search failed"
         /\ outcome'.session_id = None
         /\ \E p \in CreatedByStep :
              /\ CreatedByStep = {p}
              /\ active_sessions'[p].state = "IN_PROGRESS"
              /\ active_sessions'[p].turns = << >>
              /\ session_history'[p] = << >>

\* the step is a sweep
Sweeps == \E max_age_hours \in MaxAges : cleanup_old_sessions(max_age_hours)

\* the step is a call of update_session or end_session with the id p
Names(p) ==
    \/ \E q \in QueryTexts, query_id \in QueryIds, answer_id \in AnswerIds :
         update_session(p, q, query_id, answer_id)
    \/ end_session(p)

\* C26 as stated: the session a failed conversational search has added stays
\* IN_PROGRESS with an empty history until a sweep removes it, and no call
\* returns its id
C26_SessionUntouchedUntilSwept ==
    /\ [](\A p \in LeftBehind, u \in UserIds :
             \A s \in list_sessions(u) : s.session_id # p)
    /\ [][ /\ FailedCallKeepsItsSession
           /\ \A p \in LeftBehind :
                \/ Sweeps
                \/ /\ p \in DOMAIN active_sessions'
                   /\ active_sessions'[p].state = "IN_PROGRESS"
                   /\ session_history'[p] = << >> ]_vars

\* C26: a conversational search that adds a session and then fails raises,
\* returns no id and leaves the session stored, IN_PROGRESS, with an empty
\* history; the session and its history then stay as they are in every step
\* that is neither a sweep nor a call of update_session or end_session with its
\* id, and list_sessions returns its id while it is IN_PROGRESS
C26_FailedCallLeavesSessionBehind ==
    /\ [](\A p \in LeftBehind :
             active_sessions[p].state = "IN_PROGRESS" =>
                \E s \in list_sessions(None) : s.session_id = p)
    /\ [][ /\ FailedCallKeepsItsSession
           /\ \A p \in LeftBehind :
                \/ Sweeps
                \/ Names(p)
                \/ /\ p \in DOMAIN active_sessions'
                   /\ active_sessions'[p] = active_sessions[p]
                   /\ session_history'[p] = session_history[p] ]_vars

\* a conversational search has raised after the search came back with status
\* 500, and the session it added is stored, IN_PROGRESS, without turns
C26_Witness ==
    /\ outcome.err = << "Conversational search failed", "Search with answer failed",
                        "Search failed", "REST API failed: 500" >>
    /\ outcome.session_id = None
    /\ LeftBehind # {}
    /\ \A p \in LeftBehind :
         /\ active_sessions[p].state = "IN_PROGRESS"
         /\ session_history[p] = << >>

====
